---- MODULE Spec2Model ----
(***************************************************************************)
(* A model of seminar_topic_solver.py: one run of the script, from the     *)
(* parsed command line to the printed report or the uncaught exception.    *)
(*                                                                         *)
(* The run is sequential.  Its steps are the statements of the module      *)
(* body (lines 154-161) and the phases of parse_csv and                    *)
(* solve_assignment_problem:                                               *)
(*                                                                         *)
(*   ReadFile -> ReadLabels -> ReadPreferences -> CheckSequences           *)
(*            -> AssignDefaults -> BuildMatrix -> Solve                    *)
(*            -> PrintStatistics -> PrintSolution                          *)
(*                                                                         *)
(* and any phase of parse_csv may raise, which ends the run (pc "failed"). *)
(* Indices of students and topics are 0-based, as in the script; TLA+      *)
(* sequences are 1-based, so fields[student+1][topic+1] of the script is   *)
(* fields[student+2][topic+2] here.                                        *)
(***************************************************************************)
EXTENDS Integers, Sequences, FiniteSets, TLC

(***************************************************************************)
(* Bounds of the model.                                                    *)
(***************************************************************************)
\* A well-formed input table has at most this many preference cells
\* (#students * #topics), and at most this many students or topics.
MaxCells == 4
\* The integers written in preference cells range over 0..MaxPref.
MaxPref == 3

\* The values given to --penalize_below_n_preferences (type=int, any sign;
\* 3 is the default of line 150).
Thresholds == {-1, 0, 1, 3}

(***************************************************************************)
(* Cells of the csv file are strings.                                      *)
(***************************************************************************)
\* Decimal literals and the integers int() gives for them.
IntLiterals ==
    { <<"-1", -1>>, <<"0", 0>>, <<"1", 1>>, <<"2", 2>>, <<"3", 3>>,
      <<"4", 4>>, <<"5", 5>>, <<"6", 6>>, <<"7", 7>>, <<"8", 8>>, <<"9", 9>> }

\* Whether int(s) succeeds.
IsIntString(s) == \E l \in IntLiterals : l[1] = s

\* int(s), for a string int() accepts.
int(s) == (CHOOSE l \in IntLiterals : l[1] = s)[2]

\* The strings a preference cell of the input holds: empty, an integer
\* literal of 0..MaxPref, or a string that is no integer.
CellStrings == {"", "x"} \cup { l[1] : l \in { k \in IntLiterals : k[2] \in 0..MaxPref } }

\* A cell a row carries beyond the header's width (a trailing ';' or a value).
ExtraCells == {"", "1"}

TopicNames == <<"A", "B", "C", "D", "E", "F", "G", "H">>
StudentNames == <<"s1", "s2", "s3", "s4", "s5", "s6", "s7", "s8">>

(***************************************************************************)
(* Input files, as the list of rows csv.reader yields.                     *)
(***************************************************************************)
HeaderRow(m) == <<"X">> \o [j \in 1..m |-> TopicNames[j]]

\* The well-formed table of n students and m topics whose preference cells
\* are rows[i][j].
Table(n, m, rows) ==
    <<HeaderRow(m)>> \o [i \in 1..n |-> <<StudentNames[i]>> \o rows[i]]

\* The shapes (#students, #topics) of the well-formed tables.
Shapes == { nm \in (0..MaxCells) \X (0..MaxCells) : nm[1] * nm[2] <= MaxCells }

DropLast(row) == SubSeq(row, 1, Len(row) - 1)

\* A table with one data row made one cell shorter (down to a blank line)
\* or one cell longer.
Ragged(f) ==
    UNION { { [f EXCEPT ![i] = r] :
                r \in {DropLast(f[i])} \cup { Append(f[i], e) : e \in ExtraCells } } :
            i \in 2..Len(f) }

\* Whether the non-empty cells of a row of preference cells are integer
\* literals whose values are exactly 1..k, each once.
IsRankedRow(cells) ==
    LET given == { j \in 1..Len(cells) : cells[j] # "" } IN
    /\ \A j \in given : IsIntString(cells[j])
    /\ \A j \in given : int(cells[j]) \in 1..Cardinality(given)
    /\ \A j1, j2 \in given : j1 # j2 => int(cells[j1]) # int(cells[j2])

RankedRows(m) == { cells \in [1..m -> CellStrings] : IsRankedRow(cells) }

\* The shapes (#students, #topics) of the larger tables, of which only those
\* whose every row is a ranking are taken as inputs.
RankedShapes == { <<2, 3>>, <<3, 2>>, <<3, 3>> }

\* The table of the end-to-end scenario.
ScenarioTable ==
    << <<"X", "A", "B", "C">>,
       <<"s1", "1", "2", "3">>,
       <<"s2", "", "1", "">>,
       <<"s3", "3", "", "1">> >>

EmptyFile == << >>

VARIABLES
    csvfile,                        \* the rows of the input file (never changes)
    penalize_below_n_preferences,   \* the global of lines 32 and 156
    pc,                             \* the phase the run is in
    fields, topics, students,       \* locals of parse_csv
    specified_preferences, unspecified_preferences, preferences,
    error,                          \* the exception raised, "none" if none
    cost_matrix, writes,            \* the matrix, and how often each cell was assigned
    solver_calls,                   \* calls of scipy.optimize.linear_sum_assignment
    row_indices, col_indices, total_cost,
    output                          \* the lines printed

vars == <<csvfile, penalize_below_n_preferences, pc, fields, topics, students,
          specified_preferences, unspecified_preferences, preferences, error,
          cost_matrix, writes, solver_calls, row_indices, col_indices,
          total_cost, output>>

parse_vars == <<fields, topics, students, specified_preferences,
                unspecified_preferences, preferences>>
solve_vars == <<cost_matrix, writes, solver_calls, row_indices, col_indices,
                total_cost, output>>

\* The state after lines 154-157: the command line is parsed.
Init ==
    /\ \/ /\ \E nm \in Shapes :
                \E rows \in [1..nm[1] -> [1..nm[2] -> CellStrings]] :
                   LET f == Table(nm[1], nm[2], rows)
                   IN  csvfile \in {f} \cup Ragged(f)
          /\ penalize_below_n_preferences \in Thresholds
       \/ /\ \E nm \in RankedShapes :
                \E rows \in [1..nm[1] -> RankedRows(nm[2])] :
                   csvfile = Table(nm[1], nm[2], rows)
          /\ penalize_below_n_preferences \in Thresholds
       \/ /\ csvfile = EmptyFile
          /\ penalize_below_n_preferences \in Thresholds
       \/ /\ csvfile = ScenarioTable
          /\ penalize_below_n_preferences = 3
    /\ pc = "read_file"
    /\ fields = << >>
    /\ topics = << >>
    /\ students = << >>
    /\ specified_preferences = << >>
    /\ unspecified_preferences = << >>
    /\ preferences = << >>
    /\ error = "none"
    /\ cost_matrix = << >>
    /\ writes = << >>
    /\ solver_calls = 0
    /\ row_indices = << >>
    /\ col_indices = << >>
    /\ total_cost = 0
    /\ output = << >>

(***************************************************************************)
(* Helpers standing for Python built-ins.                                  *)
(***************************************************************************)
Range(seq) == { seq[i] : i \in 1..Len(seq) }

\* sum(list)
RECURSIVE sum(_)
sum(seq) == IF seq = << >> THEN 0 ELSE Head(seq) + sum(Tail(seq))

\* max(list), of a non-empty list
max(seq) == CHOOSE x \in Range(seq) : \A y \in Range(seq) : y <= x

\* [q for (t,q) in pairs]
Values(pairs) == [i \in 1..Len(pairs) |-> pairs[i][2]]

\* The exceptions parse_csv can raise, by the place that raises them.
IndexError == "IndexError: list index out of range"
ValueErrorInt == "ValueError: invalid literal for int()"
ValueErrorLessThanOne == "ValueError: preference value was less than one"
ValueErrorNotUnique == "ValueError: preference value is not unique"
ValueErrorNotSequence == "ValueError: preference values are not a sequence from 1 to n"

\* Lines 159-161: the module body calls parse_csv outside any try, so
\* an exception raised in it ends the run.
AfterRaise_swallowed == "build_matrix"

AfterRaise == "failed"

(***************************************************************************)
(* parse_csv                                                               *)
(***************************************************************************)
\* Lines 72-78: every row of the file is appended to fields.
ReadFile ==
    /\ pc = "read_file"
    /\ fields' = csvfile
    /\ pc' = "read_labels"
    /\ UNCHANGED <<csvfile, penalize_below_n_preferences, topics, students,
                   specified_preferences, unspecified_preferences, preferences,
                   error>>
    /\ UNCHANGED solve_vars

\* Lines 80-84: the topic labels are the first row minus its first cell, the
\* student labels the first cell of every other row.  fields[0] of an empty
\* file and row[0] of a blank line raise IndexError.
ReadLabels ==
    /\ pc = "read_labels"
    /\ IF fields = << >> \/ \E i \in 2..Len(fields) : fields[i] = << >>
       THEN /\ error' = IndexError
            /\ pc' = AfterRaise
            /\ UNCHANGED <<topics, students>>
       ELSE /\ topics' = (IF fields[1] = << >> THEN << >> ELSE Tail(fields[1]))
            /\ students' = [i \in 1..(Len(fields) - 1) |-> fields[i + 1][1]]
            /\ pc' = "read_preferences"
            /\ UNCHANGED error
    /\ UNCHANGED <<csvfile, penalize_below_n_preferences, fields,
                   specified_preferences, unspecified_preferences, preferences>>
    /\ UNCHANGED solve_vars

\* Lines 97-111 for one student: the cells of the row, topic by topic from
\* `topic` on; the first cell that fails raises.
RECURSIVE ReadCells(_, _, _, _, _)
ReadCells(row, ntopics, topic, specified, unspecified) ==
    IF topic = ntopics
    THEN [error |-> "none", specified |-> specified, unspecified |-> unspecified]
    ELSE IF Len(row) < topic + 2
    THEN [error |-> IndexError, specified |-> specified, unspecified |-> unspecified]
    ELSE LET preference_string == row[topic + 2] IN
         IF preference_string = ""
         THEN ReadCells(row, ntopics, topic + 1, specified, Append(unspecified, topic))
         ELSE IF ~IsIntString(preference_string)
         THEN [error |-> ValueErrorInt, specified |-> specified, unspecified |-> unspecified]
         ELSE LET p == int(preference_string) IN
              IF p < 1
              THEN [error |-> ValueErrorLessThanOne, specified |-> specified,
                    unspecified |-> unspecified]
              ELSE IF p \in Range(Values(specified))
              THEN [error |-> ValueErrorNotUnique, specified |-> specified,
                    unspecified |-> unspecified]
              ELSE ReadCells(row, ntopics, topic + 1,
                             Append(specified, <<topic, p>>), unspecified)

\* Lines 96-111: the loop over the students, from `student` on.
RECURSIVE ReadStudents(_, _, _, _, _)
ReadStudents(flds, ntopics, student, specified, unspecified) ==
    IF student = Len(flds) - 1
    THEN [error |-> "none", specified |-> specified, unspecified |-> unspecified]
    ELSE LET r == ReadCells(flds[student + 2], ntopics, 0, << >>, << >>) IN
         IF r.error # "none"
         THEN [error |-> r.error, specified |-> specified, unspecified |-> unspecified]
         ELSE ReadStudents(flds, ntopics, student + 1,
                           Append(specified, r.specified),
                           Append(unspecified, r.unspecified))

\* Lines 86-111.
ReadPreferences ==
    /\ pc = "read_preferences"
    /\ LET r == ReadStudents(fields, Len(topics), 0, << >>, << >>) IN
       IF r.error # "none"
       THEN /\ error' = r.error
            /\ pc' = AfterRaise
            /\ UNCHANGED <<specified_preferences, unspecified_preferences>>
       ELSE /\ specified_preferences' = r.specified
            /\ unspecified_preferences' = r.unspecified
            /\ pc' = "check_sequences"
            /\ UNCHANGED error
    /\ UNCHANGED <<csvfile, penalize_below_n_preferences, fields, topics,
                   students, preferences>>
    /\ UNCHANGED solve_vars

\* Lines 115-118: whether the values of one student pass the sum test.
SumMismatch_off_by_one(specified) ==
    LET preference_sum == sum(Values(specified))
        preference_count == Len(specified)
        expected_preference_sum == (preference_count * (preference_count - 1)) \div 2
    IN  expected_preference_sum # preference_sum

SumMismatch(specified) ==
    LET preference_sum == sum(Values(specified))
        preference_count == Len(specified)
        expected_preference_sum == (preference_count * (preference_count + 1)) \div 2
    IN  expected_preference_sum # preference_sum

\* Line 114: the students the sum test is applied to.
CheckedStudents == 1..Len(students)

\* Lines 113-119.
CheckSequences ==
    /\ pc = "check_sequences"
    /\ IF \E s \in CheckedStudents : SumMismatch(specified_preferences[s])
       THEN /\ error' = ValueErrorNotSequence
            /\ pc' = AfterRaise
       ELSE /\ pc' = "assign_defaults"
            /\ UNCHANGED error
    /\ UNCHANGED <<csvfile, penalize_below_n_preferences>>
    /\ UNCHANGED parse_vars
    /\ UNCHANGED solve_vars

\* Lines 125-131: the preference value given to the topics a student left
\* unspecified.
PreferenceValueForUnspecified_always_default(specified, threshold) ==
    threshold + 1

PreferenceValueForUnspecified_no_penalty(specified, threshold) ==
    IF Len(specified) > 0 THEN max(Values(specified)) ELSE threshold + 1

PreferenceValueForUnspecified(specified, threshold) ==
    IF Len(specified) > 0
    THEN max(Values(specified)) + threshold
    ELSE threshold + 1

\* Lines 132-133: the unspecified topics are appended to the student's list.
Completed_overwrite(specified, unspecified, value) ==
    [i \in 1..Len(unspecified) |-> <<unspecified[i], value>>]

Completed(specified, unspecified, value) ==
    specified \o [i \in 1..Len(unspecified) |-> <<unspecified[i], value>>]

\* Lines 123-135, from `student` on.
RECURSIVE Merge(_, _, _, _, _)
Merge(specified, unspecified, threshold, student, prefs) ==
    IF student = Len(specified)
    THEN [specified |-> specified, preferences |-> prefs]
    ELSE LET value == PreferenceValueForUnspecified(specified[student + 1], threshold)
             all == Completed(specified[student + 1], unspecified[student + 1], value)
         IN  Merge([specified EXCEPT ![student + 1] = all], unspecified, threshold,
                   student + 1,
                   prefs \o [i \in 1..Len(all) |-> <<student, all[i][1], all[i][2]>>])

\* Lines 121-137: parse_csv returns.
AssignDefaults ==
    /\ pc = "assign_defaults"
    /\ LET r == Merge(specified_preferences, unspecified_preferences,
                      penalize_below_n_preferences, 0, << >>) IN
       /\ specified_preferences' = r.specified
       /\ preferences' = r.preferences
    /\ pc' = "build_matrix"
    /\ UNCHANGED <<csvfile, penalize_below_n_preferences, fields, topics,
                   students, unspecified_preferences, error>>
    /\ UNCHANGED solve_vars

(***************************************************************************)
(* solve_assignment_problem                                                *)
(***************************************************************************)
RowIndices == 0..(Len(students) - 1)
ColIndices == 0..(Len(topics) - 1)

\* np.zeros((len(students), len(topics)))
Zeros == [c \in RowIndices \X ColIndices |-> 0]

\* Lines 42-44: the preference items are written into the matrix, one
\* after the other; `count` records how often each cell is assigned.
RECURSIVE Fill(_, _, _, _)
Fill(matrix, count, prefs, i) ==
    IF i > Len(prefs)
    THEN [matrix |-> matrix, count |-> count]
    ELSE LET student == prefs[i][1]
             topic == prefs[i][2]
             cost == prefs[i][3]
         IN  Fill([matrix EXCEPT ![<<student, topic>>] = cost],
                  [count EXCEPT ![<<student, topic>>] = @ + 1], prefs, i + 1)

\* Lines 40-44.
BuildMatrix ==
    /\ pc = "build_matrix"
    /\ LET r == Fill(Zeros, Zeros, preferences, 1) IN
       /\ cost_matrix' = r.matrix
       /\ writes' = r.count
    /\ pc' = "solve"
    /\ UNCHANGED <<csvfile, penalize_below_n_preferences, error>>
    /\ UNCHANGED parse_vars
    /\ UNCHANGED <<solver_calls, row_indices, col_indices, total_cost, output>>

\* The elements of a finite set of integers, in increasing order.
RECURSIVE Sorted(_)
Sorted(S) ==
    IF S = {} THEN << >>
    ELSE LET lo == CHOOSE x \in S : \A y \in S : x <= y
         IN  <<lo>> \o Sorted(S \ {lo})

\* What scipy.optimize.linear_sum_assignment may pair: min(#rows, #columns)
\* rows, each with a column of its own (for a matrix with more rows than
\* columns it pairs every column and leaves rows out; for a matrix with no
\* rows or no columns it pairs nothing).  A pairing is a function from the
\* rows it pairs to their columns.
Pairings(rows, cols) ==
    LET k == IF Cardinality(rows) <= Cardinality(cols)
             THEN Cardinality(rows) ELSE Cardinality(cols)
        some == UNION { [R -> cols] : R \in { Q \in SUBSET rows : Cardinality(Q) = k } }
    IN  { f \in some : \A r1, r2 \in DOMAIN f : r1 # r2 => f[r1] # f[r2] }

\* The pairing as the routine returns it: the row indices in increasing
\* order, and the column paired with each.
RowsOf(f) == Sorted(DOMAIN f)
ColsOf(f) == [i \in 1..Cardinality(DOMAIN f) |-> f[RowsOf(f)[i]]]

\* cost_matrix[row_indices, col_indices].sum() of line 56.
TotalCost_first_column(matrix, rows, cols) ==
    sum([i \in 1..Len(rows) |-> matrix[<<rows[i], cols[1]>>]])

TotalCost(matrix, rows, cols) ==
    sum([i \in 1..Len(rows) |-> matrix[<<rows[i], cols[i]>>]])

\* The summed cost of the cells a pairing selects.
RECURSIVE PairingCostOver(_, _, _)
PairingCostOver(matrix, f, rows) ==
    IF rows = {} THEN 0
    ELSE LET r == CHOOSE x \in rows : TRUE
         IN  matrix[<<r, f[r]>>] + PairingCostOver(matrix, f, rows \ {r})

PairingCost(matrix, f) == PairingCostOver(matrix, f, DOMAIN f)

\* The pairings of least summed cost: the routine returns one of them, and
\* which one is its own tie-break.
OptimalPairings(matrix, rows, cols) ==
    LET all == Pairings(rows, cols)
    IN  { f \in all : \A g \in all : PairingCost(matrix, f) <= PairingCost(matrix, g) }

\* Lines 46-53: the call of the matching routine.
Solve ==
    /\ pc = "solve"
    /\ \E f \in OptimalPairings(cost_matrix, RowIndices, ColIndices) :
          /\ row_indices' = RowsOf(f)
          /\ col_indices' = ColsOf(f)
    /\ solver_calls' = solver_calls + 1
    /\ pc' = "print_statistics"
    /\ UNCHANGED <<csvfile, penalize_below_n_preferences, error>>
    /\ UNCHANGED parse_vars
    /\ UNCHANGED <<cost_matrix, writes, total_cost, output>>

\* "%.2f" of total / n, in hundredths: the nearest hundredth, a tie going
\* to the even one (no tie arises for n < 8).
Hundredths(total, n) ==
    LET q == (100 * total) \div n
        r == (100 * total) % n
    IN  IF 2 * r > n THEN q + 1
        ELSE IF 2 * r < n THEN q
        ELSE q + (q % 2)

\* The lines of the report.  value is the number printed (hundredths for an
\* average), nan says that the average printed is nan (0.0 / 0).
Line(kind, student, topic, value, nan) ==
    [kind |-> kind, student |-> student, topic |-> topic, value |-> value, nan |-> nan]

TotalLine(total) == Line("Total cost", "", "", total, FALSE)

AverageLine(total, n) ==
    IF n = 0 THEN Line("Average cost", "", "", 0, TRUE)
    ELSE Line("Average cost", "", "", Hundredths(total, n), FALSE)

WarningLine(total, n) == Line("WARNING", "", "", Hundredths(total, n), FALSE)

SolutionLine == Line("Solution", "", "", 0, FALSE)

AssignmentLine(student, topic) == Line("Student gets topic", student, topic, 0, FALSE)

\* Line 61: average_cost > penalize_below_n_preferences, with
\* average_cost = total / n (nan for n = 0, which compares False).
WarningDue_at_least(total, n, threshold) == n > 0 /\ total >= threshold * n

WarningDue(total, n, threshold) == n > 0 /\ total > threshold * n

\* Lines 55-62.
PrintStatistics ==
    /\ pc = "print_statistics"
    /\ LET total == TotalCost(cost_matrix, row_indices, col_indices)
           n == Len(students)
       IN  /\ total_cost' = total
           /\ output' = output \o <<TotalLine(total), AverageLine(total, n)>>
                 \o (IF WarningDue(total, n, penalize_below_n_preferences)
                     THEN <<WarningLine(total, n)>> ELSE << >>)
    /\ pc' = "print_solution"
    /\ UNCHANGED <<csvfile, penalize_below_n_preferences, error>>
    /\ UNCHANGED parse_vars
    /\ UNCHANGED <<cost_matrix, writes, solver_calls, row_indices, col_indices>>

\* Line 65: range(len(row_indices)).
SolutionRange_skip_last == 1..(Len(row_indices) - 1)

SolutionRange == 1..Len(row_indices)

\* Lines 64-68.
PrintSolution ==
    /\ pc = "print_solution"
    /\ output' = output \o <<SolutionLine>>
          \o [i \in SolutionRange |->
                LET student_index == row_indices[i]
                    topic_index == col_indices[i]
                IN  AssignmentLine(students[student_index + 1], topics[topic_index + 1])]
    /\ pc' = "done"
    /\ UNCHANGED <<csvfile, penalize_below_n_preferences, error>>
    /\ UNCHANGED parse_vars
    /\ UNCHANGED <<cost_matrix, writes, solver_calls, row_indices, col_indices,
                   total_cost>>

\* Lines 159-161: the module body runs parse_csv, then
\* solve_assignment_problem; an exception ends the run.
Next ==
    \/ ReadFile
    \/ ReadLabels
    \/ ReadPreferences
    \/ CheckSequences
    \/ AssignDefaults
    \/ BuildMatrix
    \/ Solve
    \/ PrintStatistics
    \/ PrintSolution

Spec == Init /\ [][Next]_vars

(***************************************************************************)
(* The input table, read off the file itself.                              *)
(***************************************************************************)
InputStudents == 0..(Len(csvfile) - 2)
InputTopics == 0..(Len(csvfile[1]) - 2)
InputCell(s, t) == csvfile[s + 2][t + 2]

\* A header, and every data row as wide as the header.
WellFormedInput ==
    /\ csvfile # << >>
    /\ Len(csvfile[1]) >= 1
    /\ \A i \in 2..Len(csvfile) : Len(csvfile[i]) = Len(csvfile[1])

\* An empty file, or a data row shorter or longer than the header.
MalformedInput ==
    \/ csvfile = << >>
    \/ \E i \in 2..Len(csvfile) : Len(csvfile[i]) # Len(csvfile[1])

IntegerCells ==
    \A s \in InputStudents, t \in InputTopics :
        InputCell(s, t) = "" \/ IsIntString(InputCell(s, t))

\* The topics a student specified, and the values given to them.
GivenTopics(s) == { t \in InputTopics : InputCell(s, t) # "" }
BlankTopics(s) == { t \in InputTopics : InputCell(s, t) = "" }
GivenValues(s) == { int(InputCell(s, t)) : t \in GivenTopics(s) }

\* The specified values of student s are exactly 1..k, each once.
IsRanking(s) ==
    /\ Cardinality(GivenValues(s)) = Cardinality(GivenTopics(s))
    /\ GivenValues(s) = 1..Cardinality(GivenTopics(s))

\* parse_csv has returned.
Parsed ==
    /\ error = "none"
    /\ pc \in {"build_matrix", "solve", "print_statistics", "print_solution", "done"}

\* The matrix is built.
MatrixBuilt ==
    /\ error = "none"
    /\ pc \in {"solve", "print_statistics", "print_solution", "done"}

\* The statistics are printed.
StatisticsPrinted == error = "none" /\ pc \in {"print_solution", "done"}

\* The costs the preference list holds for a (student, topic) pair.
Triples(s, t) ==
    { i \in 1..Len(preferences) : preferences[i][1] = s /\ preferences[i][2] = t }
Cost(s, t) == preferences[CHOOSE i \in Triples(s, t) : TRUE][3]

IsAssignmentLine(l) == l.kind = "Student gets topic"
AssignmentLines == SelectSeq(output, IsAssignmentLine)

Abs(x) == IF x < 0 THEN -x ELSE x

(***************************************************************************)
(* C1.  When parse_csv succeeds and there are at least as many topics as   *)
(* students, the finished report holds exactly one assignment line per     *)
(* student and no topic occurs in two assignment lines.                    *)
(***************************************************************************)
C1_OneLinePerStudent ==
    (pc = "done" /\ error = "none" /\ Len(topics) >= Len(students)) =>
        /\ Len(AssignmentLines) = Len(students)
        /\ \A s \in 1..Len(students) :
              Cardinality({ i \in 1..Len(AssignmentLines) :
                              AssignmentLines[i].student = students[s] }) = 1
        /\ \A i, j \in 1..Len(AssignmentLines) :
              i # j => AssignmentLines[i].topic # AssignmentLines[j].topic

\* A finished report for two or more students with a topic to spare.
C1_Witness ==
    /\ pc = "done" /\ error = "none"
    /\ Len(students) >= 2
    /\ Len(topics) > Len(students)
    /\ Len(AssignmentLines) = Len(students)

(***************************************************************************)
(* C2.  With fewer topics than students no assignment line is printed:     *)
(* the run does not report topics for only some of the students.           *)
(***************************************************************************)
C2_NoPartialAssignment ==
    (error = "none" /\ Len(topics) < Len(students)) => AssignmentLines = << >>

(***************************************************************************)
(* C3.  For a well-formed table of integer cells, parse_csv raises one of  *)
(* its three preference errors exactly when some student's specified       *)
(* values are not the set 1..k, k the number of cells the student filled;  *)
(* it raises nothing else, whatever columns hold the values.               *)
(***************************************************************************)
PreferenceErrors == {ValueErrorLessThanOne, ValueErrorNotUnique, ValueErrorNotSequence}

ValidationDone == pc = "failed" \/ Parsed \/ pc = "assign_defaults"

C3_RejectsExactlyNonRankings ==
    (WellFormedInput /\ IntegerCells /\ ValidationDone) =>
        /\ error \in PreferenceErrors \cup {"none"}
        /\ (error \in PreferenceErrors) <=> (\E s \in InputStudents : ~IsRanking(s))

\* A student whose values are 1 and 3: distinct and at least 1, so only
\* the sum test finds the gap.
C3_Witness ==
    /\ WellFormedInput /\ IntegerCells
    /\ pc = "failed"
    /\ error = ValueErrorNotSequence
    /\ \E s \in InputStudents : GivenValues(s) = {1, 3}

(***************************************************************************)
(* C4.  After a successful parse every empty cell of a student costs the   *)
(* student's largest specified value plus the threshold, or the threshold  *)
(* plus one when the student specified nothing; the scenario table with    *)
(* threshold 3 gives the matrix (1,2,3), (4,1,4), (3,6,1).                 *)
(***************************************************************************)
ScenarioMatrix ==
    LET m == << <<1, 2, 3>>, <<4, 1, 4>>, <<3, 6, 1>> >>
    IN  [c \in (0..2) \X (0..2) |-> m[c[1] + 1][c[2] + 1]]

C5_OneTriplePerPair ==
    /\ Parsed =>
         /\ Len(preferences) = Len(students) * Len(topics)
         /\ \A s \in RowIndices, t \in ColIndices :
               /\ Cardinality(Triples(s, t)) = 1
               /\ InputCell(s, t) # "" => Cost(s, t) = int(InputCell(s, t))
    /\ MatrixBuilt =>
         /\ DOMAIN cost_matrix = RowIndices \X ColIndices
         /\ \A c \in RowIndices \X ColIndices :
               writes[c] = 1 /\ cost_matrix[c] = Cost(c[1], c[2])
    /\ (error = "none" /\ pc \in {"build_matrix", "solve"}) => solver_calls = 0

\* A built matrix of two or more students and topics, of specified and of
\* unspecified cells.
C5_Witness ==
    /\ MatrixBuilt /\ pc = "solve"
    /\ Len(students) >= 2 /\ Len(topics) >= 2
    /\ \E s \in InputStudents : GivenTopics(s) # {} /\ BlankTopics(s) # {}

(***************************************************************************)
(* C6.  Once parse_csv has raised, the run is over: the matching routine   *)
(* was not and is not called, and nothing of the report is printed.        *)
(***************************************************************************)
C6_ErrorEndsRun ==
    error # "none" =>
        /\ solver_calls = 0
        /\ output = << >>
        /\ cost_matrix = << >>
        /\ ~ENABLED Next

\* The sequence test fails for the last student of the file only.
C6_Witness ==
    /\ error = ValueErrorNotSequence
    /\ WellFormedInput /\ IntegerCells
    /\ Len(csvfile) >= 3
    /\ \A s \in InputStudents : IsRanking(s) <=> s # Len(csvfile) - 2

(***************************************************************************)
(* C7.  A malformed table (an empty file, a data row shorter or longer     *)
(* than the header) makes the load fail: no assignment is reported for it. *)
(***************************************************************************)
C7_MalformedNeverSolved ==
    MalformedInput => AssignmentLines = << >>

(***************************************************************************)
(* C8.  The total printed is the sum of the matched cells' costs, the      *)
(* average printed is total / #students (to the hundredth), the warning is *)
(* printed exactly when total / #students exceeds the threshold, and the   *)
(* assignment lines follow in either case.                                 *)
(***************************************************************************)
MatchedCost ==
    sum([i \in 1..Len(row_indices) |-> Cost(row_indices[i], col_indices[i])])

HasWarning == \E i \in 1..Len(output) : output[i].kind = "WARNING"

C8_StatisticsAndWarning ==
    StatisticsPrinted =>
        LET n == Len(students)
            warn == n > 0 /\ MatchedCost > penalize_below_n_preferences * n
            k == IF warn THEN 4 ELSE 3
        IN  /\ total_cost = MatchedCost
            /\ output[1].kind = "Total cost" /\ output[1].value = MatchedCost
            /\ output[2].kind = "Average cost"
            /\ output[2].nan <=> n = 0
            /\ n > 0 => 2 * Abs(100 * MatchedCost - n * output[2].value) <= n
            /\ HasWarning <=> warn
            /\ warn => output[3].kind = "WARNING"
            /\ pc = "print_solution" => Len(output) = k - 1
            /\ pc = "done" =>
                 /\ Len(output) = k + Len(row_indices)
                 /\ output[k].kind = "Solution"
                 /\ \A i \in 1..Len(row_indices) :
                       output[k + i] = AssignmentLine(students[row_indices[i] + 1],
                                                      topics[col_indices[i] + 1])

\* A finished report with the warning, and assignment lines after it.
C8_Witness ==
    /\ pc = "done" /\ error = "none"
    /\ output[3].kind = "WARNING"
    /\ Len(students) >= 2
    /\ Len(output) = 4 + Len(students)
    /\ output[Len(output)].kind = "Student gets topic"

(***************************************************************************)
(* C9.  With at least as many topics as students the total reported is     *)
(* the least summed cost over all assignments of every student to a topic  *)
(* of their own, whichever optimal pairing the routine returned; for the   *)
(* scenario it is 3, with s1 -> A, s2 -> B, s3 -> C and no warning.        *)
(***************************************************************************)
FullAssignments ==
    { f \in [RowIndices -> ColIndices] : \A r1, r2 \in RowIndices : r1 # r2 => f[r1] # f[r2] }

ScenarioReport ==
    << TotalLine(3), Line("Average cost", "", "", 100, FALSE), SolutionLine,
       AssignmentLine("s1", "A"), AssignmentLine("s2", "B"), AssignmentLine("s3", "C") >>

C10_UnrankedCostsMore ==
    Parsed =>
        /\ penalize_below_n_preferences >= 1 =>
              /\ \A i \in 1..Len(preferences) : preferences[i][3] >= 1
              /\ \A s \in InputStudents : \A t \in BlankTopics(s) : \A u \in GivenTopics(s) :
                    Cost(s, t) > Cost(s, u)
        /\ penalize_below_n_preferences <= 0 =>
              \A s \in InputStudents : \A t \in BlankTopics(s) :
                  GivenTopics(s) # {} => \E u \in GivenTopics(s) : Cost(s, t) <= Cost(s, u)
        /\ penalize_below_n_preferences < 0 =>
              \A s \in InputStudents : \A t \in BlankTopics(s) :
                  GivenTopics(s) = {} => Cost(s, t) < 1

\* Threshold 1, a student who ranked two topics and left one empty.
C10_Witness ==
    /\ Parsed
    /\ penalize_below_n_preferences = 1
    /\ \E s \in InputStudents :
          /\ Cardinality(GivenTopics(s)) >= 2
          /\ \E t \in BlankTopics(s) : Cost(s, t) = 1 + Cardinality(GivenTopics(s))

\* The order is broken: with a threshold of 0 or less an unspecified topic
\* costs no more than a specified one, or costs less than 1.
C10_OrderBroken ==
    /\ Parsed
    /\ penalize_below_n_preferences <= 0
    /\ \E s \in InputStudents : \E t \in BlankTopics(s) :
          /\ Cost(s, t) < 1
          /\ \E u \in GivenTopics(s) : Cost(s, t) < Cost(s, u)
====
